---- MODULE Spec2Model ----
(***************************************************************************)
(* Model of src/src/App.js: the GuitarTuner component.                     *)
(*                                                                         *)
(* Frequencies are JavaScript numbers, IEEE 754 doubles, with the          *)
(* arithmetic of the language; the estimates fed in are given in           *)
(* ten-thousandths of a hertz.  Objects held by refs are modelled by their *)
(* observable state ("null" when the ref is null).  Every action is one    *)
(* JavaScript task: a promise continuation, an animation-frame callback,  *)
(* a timer callback, an event handler, a render or the effect cleanup.     *)
(***************************************************************************)
EXTENDS Integers, Sequences, FiniteSets, TLC

(* ---------------------------------------------------------------------- *)
(* Bounds of the model                                                     *)
(* ---------------------------------------------------------------------- *)
MaxTicks == 2
MaxPlays == 2
MaxTeardowns == 2
MaxClock == 1

(* ---------------------------------------------------------------------- *)
(* Natural numbers of any size: sequences of 14-bit limbs, least first     *)
(* ---------------------------------------------------------------------- *)
Pow2(n) == 2 ^ n

Base == 16384

\* the limbs of the number with the digits c (each below 2^31 - 2^18)
RECURSIVE Carry(_, _)
Carry(c, carry) ==
    IF c = <<>>
    THEN IF carry = 0 THEN <<>> ELSE <<carry % Base>> \o Carry(c, carry \div Base)
    ELSE LET t == Head(c) + carry
         IN  <<t % Base>> \o Carry(Tail(c), t \div Base)

Limb(w, i) == IF i <= Len(w) THEN w[i] ELSE 0

RECURSIVE Trim(_)
Trim(w) ==
    IF w # <<>> /\ w[Len(w)] = 0 THEN Trim(SubSeq(w, 1, Len(w) - 1)) ELSE w

RECURSIVE Bits(_)
Bits(n) == IF n = 0 THEN 0 ELSE 1 + Bits(n \div 2)

\* the number of bits of w
RECURSIVE BitLen(_)
BitLen(w) ==
    IF w = <<>> THEN 0
    ELSE IF w[Len(w)] = 0 THEN BitLen(SubSeq(w, 1, Len(w) - 1))
    ELSE 14 * (Len(w) - 1) + Bits(w[Len(w)])

\* w * 2^k
ShiftLeft(w, k) ==
    [i \in 1..(k \div 14) |-> 0] \o Carry([i \in 1..Len(w) |-> w[i] * Pow2(k % 14)], 0)

\* floor(w / 2^k)
ShiftRight(w, k) ==
    LET d == k \div 14
        r == k % 14
    IN  [i \in 1..(Len(w) - d) |->
            (w[i + d] \div Pow2(r)) + (Limb(w, i + d + 1) % Pow2(r)) * Pow2(14 - r)]

\* bit i of w, bit 0 the least
Bit(w, i) == (Limb(w, (i \div 14) + 1) \div Pow2(i % 14)) % 2

\* the k lowest bits of w are 0
LowZero(w, k) ==
    /\ \A i \in 1..(k \div 14) : Limb(w, i) = 0
    /\ Limb(w, (k \div 14) + 1) % Pow2(k % 14) = 0

AddLimbs(x, y) ==
    Carry([i \in 1..(IF Len(x) > Len(y) THEN Len(x) ELSE Len(y)) |->
              Limb(x, i) + Limb(y, i)], 0)

\* x - y for x >= y, from limb i on
RECURSIVE SubFrom(_, _, _, _)
SubFrom(x, y, i, borrow) ==
    IF i > Len(x) THEN <<>>
    ELSE LET t == x[i] - Limb(y, i) - borrow
         IN  IF t < 0 THEN <<t + Base>> \o SubFrom(x, y, i + 1, 1)
             ELSE <<t>> \o SubFrom(x, y, i + 1, 0)

SubLimbs(x, y) == SubFrom(x, y, 1, 0)

\* x < y, compared from limb i down
RECURSIVE LessFrom(_, _, _)
LessFrom(x, y, i) ==
    IF i = 0 THEN FALSE
    ELSE IF Limb(x, i) # Limb(y, i) THEN Limb(x, i) < Limb(y, i)
    ELSE LessFrom(x, y, i - 1)

Less(x, y) == LessFrom(x, y, IF Len(x) > Len(y) THEN Len(x) ELSE Len(y))

\* the digit of weight Base^(k-1) of the product x * y, before the carries
RECURSIVE Conv(_, _, _, _)
Conv(x, y, k, i) ==
    IF i > Len(x) \/ i > k THEN 0
    ELSE (IF k + 1 - i <= Len(y) THEN x[i] * y[k + 1 - i] ELSE 0)
             + Conv(x, y, k, i + 1)

MulLimbs(x, y) == Carry([k \in 1..(Len(x) + Len(y) - 1) |-> Conv(x, y, k, 1)], 0)

(* ---------------------------------------------------------------------- *)
(* JavaScript numbers: IEEE 754 doubles s * m * 2^e with 2^52 <= m < 2^53, *)
(* m in four limbs; operations round to nearest, ties to even.  No value   *)
(* of the program leaves the range of the normal doubles.                  *)
(* ---------------------------------------------------------------------- *)
Zero == [s |-> 0, e |-> 0, m |-> <<0, 0, 0, 0>>]

\* above every finite double
Infinity == [s |-> 1, e |-> 1024, m |-> <<0, 0, 0, 1024>>]

\* the four lowest limbs of w
Mantissa(w) == SubSeq(w \o <<0, 0, 0, 0>>, 1, 4)

\* s * q * 2^e for q of 53 bits, or of 54 after a rounding up to 2^53
Normal(s, q, e) ==
    IF BitLen(q) > 53
    THEN [s |-> s, e |-> e + 1, m |-> Mantissa(ShiftRight(q, 1))]
    ELSE [s |-> s, e |-> e, m |-> Mantissa(q)]

\* s * w * 2^e rounded to a double, for w # 0 of 53 + k bits: the k lowest
\* bits are rounded off, up when they are more than half of the bit above
\* them, or just half and that bit is 1
RoundOff(s, w, e, k) ==
    IF k <= 0
    THEN [s |-> s, e |-> e + k, m |-> Mantissa(ShiftLeft(w, -k))]
    ELSE Normal(s,
                AddLimbs(ShiftRight(w, k),
                         <<IF Bit(w, k - 1) = 1 /\ (~LowZero(w, k - 1) \/ Bit(w, k) = 1)
                           THEN 1 ELSE 0>>),
                e + k)

\* s * w * 2^e rounded to a double
RoundDouble(s, w, e) ==
    IF s = 0 \/ BitLen(w) = 0 THEN Zero ELSE RoundOff(s, w, e, BitLen(w) - 53)

Neg(a) == [a EXCEPT !.s = -a.s]

\* Math.abs
Abs(a) == [a EXCEPT !.s = IF a.s = 0 THEN 0 ELSE 1]

\* (s * x + t * y) * 2^e rounded to a double, for signs s, t and x, y # 0
AddAligned(s, x, t, y, e) ==
    RoundDouble(IF s = t \/ ~Less(x, y) THEN s ELSE t,
                IF s = t THEN AddLimbs(x, y)
                ELSE IF Less(x, y) THEN SubLimbs(y, x)
                ELSE SubLimbs(x, y),
                e)

\* hi + lo for doubles # 0 with hi.e >= lo.e; beyond 56 bits apart lo is
\* less than a quarter of the last bit of hi
AddOrdered(hi, lo) ==
    IF hi.e - lo.e > 56 THEN hi
    ELSE AddAligned(hi.s, ShiftLeft(hi.m, hi.e - lo.e), lo.s, lo.m, lo.e)

\* a + b
Add(a, b) ==
    IF a.s = 0 THEN b
    ELSE IF b.s = 0 THEN a
    ELSE AddOrdered(IF a.e >= b.e THEN a ELSE b, IF a.e >= b.e THEN b ELSE a)

\* a - b
Sub(a, b) == Add(a, Neg(b))

\* a * b
Mul(a, b) ==
    IF a.s = 0 \/ b.s = 0 THEN Zero
    ELSE RoundDouble(a.s * b.s, MulLimbs(a.m, b.m), a.e + b.e)

\* a < b
LessDouble(a, b) ==
    LET Smaller(x, y) == x.e < y.e \/ (x.e = y.e /\ Less(x.m, y.m))
    IN  IF a.s # b.s THEN a.s < b.s
        ELSE IF a.s = 0 THEN FALSE
        ELSE IF a.s = 1 THEN Smaller(a, b)
        ELSE Smaller(b, a)

\* a <= b
AtMost(a, b) == a = b \/ LessDouble(a, b)

\* n quotient bits of r / t by long division, r < t: the bits and the rest
RECURSIVE QuotientBits(_, _, _, _)
QuotientBits(r, t, q, n) ==
    IF n = 0 THEN [q |-> q, r |-> r]
    ELSE LET r2 == Mantissa(Carry([i \in 1..4 |-> 2 * r[i]], 0))
         IN  IF Less(r2, t) THEN QuotientBits(r2, t, 2 * q, n - 1)
             ELSE QuotientBits(Mantissa(SubLimbs(r2, t)), t, 2 * q + 1, n - 1)

\* n more limbs of the quotient r / t below the limbs w, r < t, and below
\* them a limb that is 1 when the division leaves a rest
RECURSIVE QuotientLimbs(_, _, _, _)
QuotientLimbs(r, t, w, n) ==
    IF n = 0 THEN <<IF r = <<0, 0, 0, 0>> THEN 0 ELSE 1>> \o w
    ELSE LET c == QuotientBits(r, t, 0, 14)
         IN  QuotientLimbs(c.r, t, <<c.q>> \o w, n - 1)

\* a / b for b # 0: a power of 2 when the mantissas are equal, else from 57
\* quotient bits
Div(a, b) ==
    IF a.s = 0 THEN Zero
    ELSE IF a.m = b.m THEN [s |-> a.s * b.s, e |-> a.e - b.e - 52, m |-> <<0, 0, 0, 1024>>]
    ELSE RoundDouble(a.s * b.s,
                     QuotientLimbs(IF Less(a.m, b.m) THEN a.m
                                   ELSE Mantissa(SubLimbs(a.m, b.m)),
                                   b.m, <<IF Less(a.m, b.m) THEN 0 ELSE 1>>, 4),
                     a.e - b.e - 70)

\* k digits in base 2^14 of the fraction r / t, least first, below them a
\* digit that is 1 when the fraction goes on
RECURSIVE FractionDigits(_, _, _)
FractionDigits(r, t, k) ==
    IF k = 0 THEN <<IF r = 0 THEN 0 ELSE 1>>
    ELSE FractionDigits((r * Base) % t, t, k - 1) \o <<(r * Base) \div t>>

\* the double that a decimal literal of n ten-thousandths denotes
Dec(n) ==
    LET a == IF n < 0 THEN -n ELSE n
        i == a \div 10000
    IN  RoundDouble(IF n < 0 THEN -1 ELSE IF n = 0 THEN 0 ELSE 1,
                    FractionDigits(a % 10000, 10000, 6) \o <<i % Base, i \div Base>>,
                    -98)

(* ---------------------------------------------------------------------- *)
(* The tuning table, lines 7-14                                            *)
(* ---------------------------------------------------------------------- *)
noteNames == <<"E2", "A2", "D3", "G3", "B3", "E4">>

TUNING_FREQUENCIES ==
    [E2 |-> Dec(824100), A2 |-> Dec(1100000), D3 |-> Dec(1468300),
     G3 |-> Dec(1960000), B3 |-> Dec(2469400), E4 |-> Dec(3296300)]

(* ---------------------------------------------------------------------- *)
(* Math.floor(1200 * Math.log2(frequency / targetFreq)), line 35           *)
(*                                                                         *)
(* ECMAScript leaves the last bit of Math.log2 to the engine.  V8 (Chrome, *)
(* Node) and SpiderMonkey compute it in doubles by the log2 of FreeBSD's   *)
(* msun (e_log2.c, k_log.h), without fused multiply-add; that computation  *)
(* is followed here step by step.                                          *)
(* ---------------------------------------------------------------------- *)
One == [s |-> 1, e |-> -52, m |-> <<0, 0, 0, 1024>>]

Two == [s |-> 1, e |-> -51, m |-> <<0, 0, 0, 1024>>]

Half == [s |-> 1, e |-> -53, m |-> <<0, 0, 0, 1024>>]

\* the positive double of the high word hx and the low word lh * 2^16 + ll
FromWords(hx, lh, ll) ==
    [s |-> 1,
     e |-> (hx \div Pow2(20)) - 1023 - 52,
     m |-> Mantissa(AddLimbs(ShiftLeft(<<Pow2(20) + (hx % Pow2(20))>>, 32),
                             AddLimbs(ShiftLeft(<<lh>>, 16), <<ll>>)))]

\* 6.666666666666735130e-01, 3FE55555 55555593
Lg1 == FromWords(1071994197, 21845, 21907)

\* 3.999999999940941908e-01, 3FD99999 9997FA04
Lg2 == FromWords(1071225241, 39319, 64004)

\* 2.857142874366239149e-01, 3FD24924 94229359
Lg3 == FromWords(1070745892, 37922, 37721)

\* 2.222219843214978396e-01, 3FCC71C5 1D8E78AF
Lg4 == FromWords(1070363077, 7566, 30895)

\* 1.818357216161805012e-01, 3FC74664 96CB03DE
Lg5 == FromWords(1070024292, 38603, 990)

\* 1.531383769920937332e-01, 3FC39A09 D078C69F
Lg6 == FromWords(1069783561, 53368, 50847)

\* 1.479819860511658591e-01, 3FC2F112 DF3E5244
Lg7 == FromWords(1069740306, 57150, 21060)

\* 1.44269504072144627571e+00, 3FF71547 65200000
ivln2hi == FromWords(1073157447, 25888, 0)

\* 1.67517131648865118353e-10, 3DE705FC 2EEFA200
ivln2lo == FromWords(1038550524, 12015, 41472)

\* k_log1p of k_log.h from its locals: s * (hfsq + R), R = t2 + t1
k_log1pSum(f, s, z, w) ==
    Mul(s, Add(Mul(Mul(Half, f), f),
               Add(Mul(z, Add(Lg1, Mul(w, Add(Lg3, Mul(w, Add(Lg5, Mul(w, Lg7))))))),
                   Mul(w, Add(Lg2, Mul(w, Add(Lg4, Mul(w, Lg6))))))))

\* z = s * s; w = z * z
k_log1pOf(f, s) == k_log1pSum(f, s, Mul(s, s), Mul(Mul(s, s), Mul(s, s)))

\* log(1 + f) - (f - f * f / 2) of k_log.h: s = f / (2.0 + f)
k_log1p(f) == k_log1pOf(f, Div(f, Add(Two, f)))

\* SET_LOW_WORD(a, 0): the 32 low bits of the mantissa cleared
ClearLowWord(a) == [a EXCEPT !.m = <<0, 0, (a.m[3] \div 16) * 16, a.m[4]>>]

\* the 20 mantissa bits of the high word of x
HighBits(x) == (x.m[4] - 1024) * 1024 + x.m[3] \div 16

\* i >> 20 for i = (hx + 0x95f64) & 0x100000: 1 when x is brought to x / 2
Halved(x) == (HighBits(x) + 614244) \div Pow2(20)

\* the integer k as a double
FromInt(k) == RoundDouble(IF k < 0 THEN -1 ELSE 1, <<IF k < 0 THEN -k ELSE k>>, 0)

\* the end of log2 of e_log2.c from its locals: val_lo = (lo + hi) * ivln2lo +
\* lo * ivln2hi; val_lo += (y - w) + val_hi; return val_lo + w
log2Sum(y, hi, lo, val_hi, w) ==
    Add(Add(Add(Mul(Add(lo, hi), ivln2lo), Mul(lo, ivln2hi)),
            Add(Sub(y, w), val_hi)),
        w)

\* val_hi = hi * ivln2hi; w = y + val_hi
log2Split(y, hi, lo) ==
    log2Sum(y, hi, lo, Mul(hi, ivln2hi), Add(y, Mul(hi, ivln2hi)))

\* hi = f - hfsq with its low word cleared; lo = (f - hi) - hfsq + r
log2Parts(y, f, hfsq, hi) ==
    log2Split(y, hi, Add(Sub(Sub(f, hi), hfsq), k_log1p(f)))

\* hfsq = 0.5 * f * f
log2Of(y, f, hfsq) == log2Parts(y, f, hfsq, ClearLowWord(Sub(f, hfsq)))

\* log2 of e_log2.c for the double x in [sqrt(2) / 2, sqrt(2)) and the double
\* y of the exponent taken out of it: f = x - 1.0
log2Reduced(x, y) == log2Of(y, Sub(x, One), Mul(Mul(Half, Sub(x, One)), Sub(x, One)))

\* Math.log2 for a double x > 0
log2(x) ==
    IF x = One THEN Zero
    ELSE log2Reduced([x EXCEPT !.e = -52 - Halved(x)],
                     FromInt(x.e + 52 + Halved(x)))

\* the number of a limb sequence below 2^31
RECURSIVE ToInt(_)
ToInt(w) == IF w = <<>> THEN 0 ELSE Head(w) + Base * ToInt(Tail(w))

\* Math.floor for a double a with |a| < 2^31
floor(a) ==
    IF a.s = 0 THEN 0
    ELSE IF a.s = 1 THEN ToInt(Trim(ShiftRight(a.m, -a.e)))
    ELSE IF LowZero(a.m, -a.e) THEN -ToInt(Trim(ShiftRight(a.m, -a.e)))
    ELSE -ToInt(Trim(ShiftRight(a.m, -a.e))) - 1

\* for doubles frequency, targetFreq > 0
FloorCents(frequency, targetFreq) ==
    floor(Mul(Dec(12000000), log2(Div(frequency, targetFreq))))

(* ---------------------------------------------------------------------- *)
(* getNoteAndCents                                                         *)
(* ---------------------------------------------------------------------- *)
\* the loop with diff <= minDiff: of two equally near notes the last one wins
RECURSIVE ClosestFromLastWins(_, _, _, _)
ClosestFromLastWins(frequency, i, closestNote, minDiff) ==
    IF i > Len(noteNames) THEN closestNote
    ELSE LET diff == Abs(Sub(frequency, TUNING_FREQUENCIES[noteNames[i]]))
         IN  IF ~LessDouble(minDiff, diff)
             THEN ClosestFromLastWins(frequency, i + 1, noteNames[i], diff)
             ELSE ClosestFromLastWins(frequency, i + 1, closestNote, minDiff)

\* the for-loop of getNoteAndCents from index i on
RECURSIVE ClosestFrom(_, _, _, _)
ClosestFrom(frequency, i, closestNote, minDiff) ==
    IF i > Len(noteNames) THEN closestNote
    ELSE LET diff == Abs(Sub(frequency, TUNING_FREQUENCIES[noteNames[i]]))
         IN  IF LessDouble(diff, minDiff)
             THEN ClosestFrom(frequency, i + 1, noteNames[i], diff)
             ELSE ClosestFrom(frequency, i + 1, closestNote, minDiff)

\* lines 34-37
NoteAndCents(frequency, closestNote) ==
    [note  |-> closestNote,
     cents |-> FloorCents(frequency, TUNING_FREQUENCIES[closestNote])]

\* a guard that hands back the initial closestNote instead of the placeholder
getNoteAndCentsFirstNote(frequency) ==
    IF AtMost(frequency, Zero) THEN [note |-> noteNames[1], cents |-> 0]
    ELSE NoteAndCents(frequency, ClosestFrom(frequency, 1, noteNames[1], Infinity))

getNoteAndCents(frequency) ==
    IF AtMost(frequency, Zero) THEN [note |-> "--", cents |-> 0]
    ELSE NoteAndCents(frequency, ClosestFrom(frequency, 1, noteNames[1], Infinity))

(* ---------------------------------------------------------------------- *)
(* Inputs from the environment                                             *)
(* ---------------------------------------------------------------------- *)
\* what pitchFinderRef.current(buffer) can hand back in one tick; a detected
\* frequency is the double nearest to f ten-thousandths of a hertz
NoEstimate == [kind |-> "init", f |-> 0]

NoPitch == [kind |-> "null", f |-> 0]

Detected(f) == [kind |-> "value", f |-> f]

EstimatorThrows == [kind |-> "throw", f |-> 0]

RawFrequencies == {0, -500000, 1000000}

Estimates == {NoPitch} \cup {Detected(f) : f \in RawFrequencies}

\* error.message of a rejected getUserMedia promise
ErrorMessages == {"Permission denied", "Requested device not found"}

EstimatorMessage == "estimator failed"

Promise(state, message) == [state |-> state, message |-> message]

\* a status text that names the error without its message
errorStatusWithoutMessage(message) == <<"Error accessing microphone: ", "">>

\* the status text of line 117, as its parts
errorStatus(message) == <<"Error accessing microphone: ", message>>

\* the release calls of the cleanup, in the order of lines 125-139
ReleaseSteps == <<"audioSource", "analyser", "audioContext", "animationFrame", "playContext">>

(* ---------------------------------------------------------------------- *)
(* State                                                                   *)
(* ---------------------------------------------------------------------- *)
VARIABLES
    micPromise,        \* the getUserMedia promise: its state and its error.message
    streamLive,        \* the MediaStream of getUserMedia has live tracks
    status,            \* useState status, as the parts of the text
    note,              \* useState note
    cents,             \* useState cents
    frequencyData,     \* useState frequencyData
    chartDataRef,      \* chartDataRef.current
    audioContextRef,   \* "null", "running", "closed"
    audioSourceRef,    \* "null", "connected", "disconnected"
    analyserRef,       \* "null", "connected", "disconnected"
    pitchFinderRef,    \* "null", "YIN"
    animationFrameRef, \* 0 for null, else the last id of requestAnimationFrame
    scheduled,         \* ids of the animation frame callbacks still pending
    cancelled,         \* ids handed to cancelAnimationFrame
    previousPitch,     \* the closure variable of initializePitchDetection
    clock,             \* Date.now()
    ticksRun,          \* calls of updatePitch that got past line 75
    ticksCompleted,    \* calls of updatePitch that reached line 110
    lastEstimate,      \* what the estimator handed to the latest updatePitch
    playing,           \* useState playing, the value last set
    playingSeen,       \* playing as captured by the rendered playFrequency
    playContextRef,    \* 0 for null, else the index in tones of the context
    tones,             \* one record per context allocated by playFrequency
    teardowns,         \* runs of the effect cleanup
    cleanupFailedAt,   \* the step whose call threw in the latest cleanup, else 0
    redundantReleases, \* release calls on an object released before
    faults             \* exceptions and promise rejections raised so far

acqVars == <<micPromise, streamLive, status, note, cents, frequencyData,
             chartDataRef, audioContextRef, audioSourceRef, analyserRef,
             pitchFinderRef, animationFrameRef, scheduled, cancelled,
             previousPitch, clock, ticksRun, ticksCompleted, lastEstimate>>

toneVars == <<playing, playingSeen, playContextRef, tones>>

downVars == <<teardowns, cleanupFailedAt, redundantReleases, faults>>

vars == <<acqVars, toneVars, downVars>>

Init ==
    /\ micPromise = Promise("pending", "")
    /\ streamLive = FALSE
    /\ status = <<"Waiting for microphone access...">>
    /\ note = "--"
    /\ cents = 0
    /\ frequencyData = <<>>
    /\ chartDataRef = <<>>
    /\ audioContextRef = "null"
    /\ audioSourceRef = "null"
    /\ analyserRef = "null"
    /\ pitchFinderRef = "null"
    /\ animationFrameRef = 0
    /\ scheduled = {}
    /\ cancelled = {}
    /\ previousPitch = Zero
    /\ clock = 0
    /\ ticksRun = 0
    /\ ticksCompleted = 0
    /\ lastEstimate = NoEstimate
    /\ playing = FALSE
    /\ playingSeen = FALSE
    /\ playContextRef = 0
    /\ tones = <<>>
    /\ teardowns = 0
    /\ cleanupFailedAt = 0
    /\ redundantReleases = 0
    /\ faults = {}

(* ---------------------------------------------------------------------- *)
(* updatePitch, lines 74-111                                               *)
(* ---------------------------------------------------------------------- *)
\* useRef(0.7), line 48
smoothingRef == Dec(7000)

\* 1 - smoothingRef.current, line 83
complement == Sub(Dec(10000), smoothingRef)

\* the weights of the previous and the new value exchanged
SmoothedPitchSwapped(previous, frequency) ==
    IF previous = Zero THEN frequency
    ELSE Add(Mul(complement, previous), Mul(smoothingRef, frequency))

\* the filter without the previous = 0 case
SmoothedPitchNoSeed(previous, frequency) ==
    Add(Mul(smoothingRef, previous), Mul(complement, frequency))

\* lines 81-83
SmoothedPitch(previous, frequency) ==
    IF previous = Zero THEN frequency
    ELSE Add(Mul(smoothingRef, previous), Mul(complement, frequency))

\* lines 85-97: what a detected tick displays, records and keeps, r being
\* the note and cents found
DetectedTick(smoothedPitch, r) ==
    [note |-> r.note, cents |-> r.cents, frequency |-> smoothedPitch,
     previousPitch |-> smoothedPitch]

\* lines 84-97
ClassifiedTick(smoothedPitch) ==
    DetectedTick(smoothedPitch, getNoteAndCents(smoothedPitch))

\* a tick that leaves the displayed note alone when nothing was detected
TickResultStaleNote(previous, est) ==
    IF est.kind = "value"
    THEN ClassifiedTick(SmoothedPitch(previous, Dec(est.f)))
    ELSE DetectedTick(Zero, getNoteAndCents(previous))

\* a tick that keeps the smoothing state when nothing was detected
TickResultKeepsPitch(previous, est) ==
    IF est.kind = "value"
    THEN ClassifiedTick(SmoothedPitch(previous, Dec(est.f)))
    ELSE [note |-> "--", cents |-> 0, frequency |-> Zero, previousPitch |-> previous]

\* a tick that classifies the raw estimate instead of the smoothed one
TickResultRawNote(previous, est) ==
    IF est.kind = "value"
    THEN DetectedTick(SmoothedPitch(previous, Dec(est.f)), getNoteAndCents(Dec(est.f)))
    ELSE [note |-> "--", cents |-> 0, frequency |-> Zero, previousPitch |-> Zero]

\* lines 80-109 but for the history: the note and cents displayed, the
\* frequency of the new history entry and the smoothing state left behind
TickResult(previous, est) ==
    IF est.kind = "value"
    THEN ClassifiedTick(SmoothedPitch(previous, Dec(est.f)))
    ELSE [note |-> "--", cents |-> 0, frequency |-> Zero, previousPitch |-> Zero]

\* the smoothing states that n ticks on estimates of the set E can leave
RECURSIVE PitchesWithin(_, _)
PitchesWithin(E, n) ==
    IF n = 0 THEN {Zero}
    ELSE LET P == PitchesWithin(E, n - 1)
         IN  P \cup {TickResult(p, est).previousPitch : p \in P, est \in E}

\* TickResult tabulated over the smoothing states and estimates of the whole
\* program's runs, so that a run looks up what it has computed before
TickResults ==
    [previous \in PitchesWithin(Estimates, MaxTicks), est \in Estimates |->
        TickResult(previous, est)]

\* an append at the front of the history
appendPointInFront(history, newDataPoint) == <<newDataPoint>> \o history

\* an append that records detected pitches only
appendPointSkipsSilence(history, newDataPoint) ==
    IF newDataPoint.frequency = Zero THEN history ELSE Append(history, newDataPoint)

\* [...chartDataRef.current, newDataPoint], lines 94 and 107
appendPoint(history, newDataPoint) == Append(history, newDataPoint)

\* a tick that asks for two animation frames
requestAnimationFrameTwice(pending, id) == pending \cup {id, id + 1}

\* requestAnimationFrame(updatePitch), line 110: the callback id is pending
requestAnimationFrame(pending, id) == pending \cup {id}

\* the entry of the table at the key when it has one
Lookup(table, key, computed) ==
    IF key \in DOMAIN table THEN table[key] ELSE computed

\* lines 85-110: r is shown and appended to the history, and the next frame
\* is asked for
ShowAndRecord(r, est, delays, pending) ==
    /\ note' = r.note
    /\ cents' = r.cents
    /\ lastEstimate' = est
    /\ \E d \in delays :
           /\ clock + d <= MaxClock
           /\ clock' = clock + d
           /\ chartDataRef' =
                  appendPoint(chartDataRef,
                              [time |-> clock + d, frequency |-> r.frequency,
                               note |-> r.note])
    /\ frequencyData' = chartDataRef'
    /\ previousPitch' = r.previousPitch
    /\ animationFrameRef' = animationFrameRef + 1
    /\ scheduled' = requestAnimationFrame(pending, animationFrameRef + 1)
    /\ ticksRun' = ticksRun + 1
    /\ ticksCompleted' = ticksCompleted + 1

\* one call of updatePitch; ready is the guard of line 75, pending the frames
\* still scheduled when the call starts, delays what Date.now() can have
\* advanced by since it was read last
updatePitch(ready, est, delays, pending) ==
    IF ~ready
    THEN /\ scheduled' = pending
         /\ UNCHANGED <<note, cents, frequencyData, chartDataRef, animationFrameRef,
                        previousPitch, clock, ticksRun, ticksCompleted, lastEstimate>>
    ELSE IF est.kind = "throw"
    THEN /\ scheduled' = pending
         /\ ticksRun' = ticksRun + 1
         /\ lastEstimate' = est
         /\ UNCHANGED <<note, cents, frequencyData, chartDataRef, animationFrameRef,
                        previousPitch, clock, ticksCompleted>>
    ELSE ShowAndRecord(Lookup(TickResults, <<previousPitch, est>>,
                              TickResult(previousPitch, est)),
                       est, delays, pending)

(* ---------------------------------------------------------------------- *)
(* initializePitchDetection, lines 56-119                                  *)
(* ---------------------------------------------------------------------- *)
\* the continuation after await getUserMedia, with the first updatePitch()
MicGrantedWith(est, delays) ==
    /\ micPromise.state = "pending"
    /\ micPromise' = Promise("resolved", "")
    /\ streamLive' = TRUE
    /\ audioContextRef' = "running"
    /\ audioSourceRef' = "connected"
    /\ analyserRef' = "connected"
    /\ pitchFinderRef' = "YIN"
    /\ updatePitch(TRUE, est, delays, scheduled)
    /\ status' = IF est.kind = "throw"
                 THEN errorStatus(EstimatorMessage)
                 ELSE <<"Microphone access granted.">>
    /\ UNCHANGED <<cancelled, toneVars, downVars>>

MicGranted == \E est \in Estimates : MicGrantedWith(est, {0, 1})

MicGrantedFirstTickThrows == MicGrantedWith(EstimatorThrows, {0})

\* the catch block when getUserMedia rejects
MicDenied ==
    /\ micPromise.state = "pending"
    /\ \E message \in ErrorMessages :
           /\ micPromise' = Promise("rejected", message)
           /\ status' = errorStatus(message)
    /\ UNCHANGED <<streamLive, note, cents, frequencyData, chartDataRef,
                   audioContextRef, audioSourceRef, analyserRef, pitchFinderRef,
                   animationFrameRef, scheduled, cancelled, previousPitch, clock,
                   ticksRun, ticksCompleted, lastEstimate, toneVars, downVars>>

\* an animation frame callback fires and runs updatePitch
FrameCallback(est, delays) ==
    /\ \E id \in scheduled :
           updatePitch(analyserRef # "null" /\ pitchFinderRef # "null",
                       est, delays, scheduled \ {id})
    /\ faults' = IF est.kind = "throw" THEN faults \cup {"TickError"} ELSE faults
    /\ UNCHANGED <<micPromise, streamLive, status, audioContextRef, audioSourceRef,
                   analyserRef, pitchFinderRef, cancelled, toneVars,
                   teardowns, cleanupFailedAt, redundantReleases>>

TickWith(est, delays) ==
    /\ ticksRun < MaxTicks
    /\ FrameCallback(est, delays)

Tick == \E est \in Estimates : TickWith(est, {0, 1})

TickThrows == TickWith(EstimatorThrows, {0})

(* ---------------------------------------------------------------------- *)
(* playFrequency, lines 181-208                                            *)
(* ---------------------------------------------------------------------- *)
\* the gain set at line 191, 0.4, in ten-thousandths
ToneGain == 4000

NewTone(frequency) ==
    [frequency |-> frequency, ctx |-> "running", osc |-> "started",
     gain |-> ToneGain, timer |-> "t1"]

\* the click handler; the closure reads the playing of its own render
playFrequency(frequency) ==
    /\ teardowns = 0
    /\ Len(tones) < MaxPlays
    /\ IF ~playingSeen
       THEN /\ tones' = Append(tones, NewTone(frequency))
            /\ playContextRef' = Len(tones) + 1
            /\ playing' = TRUE
       ELSE UNCHANGED <<tones, playContextRef, playing>>
    /\ UNCHANGED <<playingSeen, acqVars, downVars>>

PlayE2 == playFrequency(TUNING_FREQUENCIES["E2"])

\* React renders the component again: playFrequency is a new closure
Render ==
    /\ teardowns = 0
    /\ playingSeen # playing
    /\ playingSeen' = playing
    /\ UNCHANGED <<playing, playContextRef, tones, acqVars, downVars>>

\* timers fire in the order of their due times.  The 1000 ms timer of a call
\* is due after the 1000 ms timers of the calls before it; against their 200 ms
\* timers it is due first when the calls are less than 200 ms apart, and
\* either way round otherwise
GainTimerDue(k) == \A j \in 1..(k - 1) : tones[j].timer # "t1"

\* the 200 ms timer of a call is set when its 1000 ms timer fires, so it is
\* due after every timer of the calls before it
StopTimerDue(k) == \A j \in 1..(k - 1) : tones[j].timer \in {"done", "failed"}

\* the callback of the 1000 ms timer, lines 196-206
GainTimer(k) ==
    /\ k \in 1..Len(tones)
    /\ tones[k].timer = "t1"
    /\ GainTimerDue(k)
    /\ IF playContextRef = 0
       THEN /\ tones' = [tones EXCEPT ![k].timer = "failed"]
            /\ faults' = faults \cup {"TypeError"}
       ELSE /\ tones' = [tones EXCEPT ![k].gain = 0, ![k].timer = "t2"]
            /\ UNCHANGED faults
    /\ UNCHANGED <<playing, playingSeen, playContextRef, acqVars,
                   teardowns, cleanupFailedAt, redundantReleases>>

\* the callback of the 200 ms timer, lines 198-205
StopTimer(k) ==
    /\ k \in 1..Len(tones)
    /\ tones[k].timer = "t2"
    /\ StopTimerDue(k)
    /\ IF playContextRef = 0
       THEN /\ tones' = [tones EXCEPT ![k].timer = "failed"]
            /\ faults' = faults \cup {"TypeError"}
            /\ UNCHANGED <<playing, playContextRef, redundantReleases>>
       ELSE /\ tones' = [tones EXCEPT ![k].osc = "stopped", ![k].timer = "done",
                                      ![playContextRef].ctx = "closed"]
            /\ playing' = FALSE
            /\ playContextRef' = 0
            /\ IF tones[playContextRef].ctx = "closed"
               THEN /\ redundantReleases' = redundantReleases + 1
                    /\ faults' = faults \cup {"InvalidStateError"}
               ELSE UNCHANGED <<redundantReleases, faults>>
    /\ UNCHANGED <<playingSeen, acqVars, teardowns, cleanupFailedAt>>

GainTimerFires == \E k \in 1..MaxPlays : GainTimer(k)

StopTimerFires == \E k \in 1..MaxPlays : StopTimer(k)

(* ---------------------------------------------------------------------- *)
(* The effect cleanup, lines 123-140                                       *)
(* ---------------------------------------------------------------------- *)
\* the guard of the i-th if of the cleanup
StepGuard(i) ==
    CASE i = 1 -> audioSourceRef # "null"
      [] i = 2 -> analyserRef # "null"
      [] i = 3 -> audioContextRef # "null"
      [] i = 4 -> animationFrameRef # 0
      [] i = 5 -> playContextRef # 0

\* the object the i-th release call acts on was released before
StepRedundant(i) ==
    CASE i = 1 -> audioSourceRef = "disconnected"
      [] i = 2 -> analyserRef = "disconnected"
      [] i = 3 -> audioContextRef = "closed"
      [] i = 4 -> animationFrameRef \in cancelled
      [] i = 5 -> tones[playContextRef].ctx = "closed"

\* one run of the cleanup in which the release call of step failAt throws
\* (failAt = 0: no call throws)
Cleanup(failAt) ==
    LET Runs(i) == StepGuard(i) /\ (failAt = 0 \/ i < failAt)
        Again   == {i \in 1..5 : Runs(i) /\ StepRedundant(i)}
    IN  /\ teardowns < MaxTeardowns
        /\ failAt # 0 => StepGuard(failAt)
        /\ teardowns' = teardowns + 1
        /\ cleanupFailedAt' = failAt
        /\ audioSourceRef' = IF Runs(1) THEN "disconnected" ELSE audioSourceRef
        /\ analyserRef' = IF Runs(2) THEN "disconnected" ELSE analyserRef
        /\ audioContextRef' = IF Runs(3) THEN "closed" ELSE audioContextRef
        /\ scheduled' = IF Runs(4) THEN scheduled \ {animationFrameRef} ELSE scheduled
        /\ cancelled' = IF Runs(4) THEN cancelled \cup {animationFrameRef} ELSE cancelled
        /\ tones' = IF Runs(5) THEN [tones EXCEPT ![playContextRef].ctx = "closed"]
                    ELSE tones
        /\ redundantReleases' = redundantReleases + Cardinality(Again)
        /\ faults' = faults
                       \cup (IF failAt # 0 THEN {"CleanupError"} ELSE {})
                       \cup (IF \E i \in {3, 5} : i \in Again
                             THEN {"InvalidStateError"} ELSE {})
        /\ UNCHANGED <<micPromise, streamLive, status, note, cents, frequencyData,
                       chartDataRef, pitchFinderRef, animationFrameRef,
                       previousPitch, clock, ticksRun, ticksCompleted,
                       lastEstimate, playing, playingSeen, playContextRef>>

Teardown == Cleanup(0)

TeardownThrows == \E i \in 1..Len(ReleaseSteps) : Cleanup(i)

(* ---------------------------------------------------------------------- *)
(* Specifications                                                          *)
(* ---------------------------------------------------------------------- *)
Next ==
    \/ MicGranted
    \/ MicDenied
    \/ Tick
    \/ PlayE2
    \/ Render
    \/ GainTimerFires
    \/ StopTimerFires
    \/ Teardown

Spec == Init /\ [][Next]_vars

\* the same program with an estimator and release calls that can throw
NextFaulty ==
    \/ Next
    \/ MicGrantedFirstTickThrows
    \/ TickThrows
    \/ TeardownThrows

SpecFaulty == Init /\ [][NextFaulty]_vars

\* the classifier on a grid of frequencies: the first updatePitch of a session
\* hands its raw estimate to getNoteAndCents unsmoothed (previousPitch = 0)
ProbeFrequencies ==
    {k * 25000 : k \in -2..140}
        \cup {824100, 1100000, 1468300, 1960000, 2469400, 3296300}
        \cup {962050, 1284150, 1714150, 2214700, 2882850, 10000000, 1, -1}

ClassifyFirstEstimate ==
    \E f \in ProbeFrequencies : MicGrantedWith(Detected(f), {0})

SpecClassify == Init /\ [][ClassifyFirstEstimate]_vars

\* the smoothing filter over a few ticks, on estimates of whole tens of hertz;
\* 0.7 * -30 + 0.3 * 70 is 0 in exact arithmetic and 2^-48 in doubles
MaxSmoothTicks == 3

SmoothEstimates ==
    {NoPitch} \cup {Detected(f) : f \in {0, -500000, -300000, 700000,
                                     1000000, 1500000, 2000000}}

SmoothFirstTick == \E est \in SmoothEstimates : MicGrantedWith(est, {0})

SmoothLaterTick ==
    /\ ticksRun < MaxSmoothTicks
    /\ \E est \in SmoothEstimates : FrameCallback(est, {0})

NextSmoothing == SmoothFirstTick \/ SmoothLaterTick

SpecSmoothing == Init /\ [][NextSmoothing]_vars

\* one session fed the estimates none (or 0), 82.41, 82.0, 82.41 in this order
ScenarioFirst == {NoPitch, Detected(0)}

ScenarioLater == <<Detected(824100), Detected(820000), Detected(824100)>>

ScenarioFirstTick == \E est \in ScenarioFirst : MicGrantedWith(est, {0, 1})

ScenarioLaterTick ==
    /\ ticksRun \in 1..Len(ScenarioLater)
    /\ FrameCallback(ScenarioLater[ticksRun], {0})

NextScenario ==
    \/ ScenarioFirstTick
    \/ ScenarioLaterTick
    \/ PlayE2
    \/ Render
    \/ GainTimerFires
    \/ StopTimerFires
    \/ Teardown

SpecScenario == Init /\ [][NextScenario]_vars

(* ---------------------------------------------------------------------- *)
(* Properties                                                              *)
(* ---------------------------------------------------------------------- *)
IsTick == ticksRun' > ticksRun

IsCleanup == teardowns' > teardowns

SilentPoint(now) == [time |-> now, frequency |-> Zero, note |-> "--"]

\* the double a in ten-thousandths, rounded to the nearest (|a| < 200000)
Units(a) ==
    IF a.s = 0 THEN 0
    ELSE LET w == MulLimbs(a.m, <<10000>>)
         IN  a.s * (ToInt(Trim(ShiftRight(w, -a.e))) + Bit(w, -a.e - 1))

\* |a - b| of two doubles as a natural number w and an exponent: w * 2^e
Distance(a, b) ==
    LET e == IF a.e < b.e THEN a.e ELSE b.e
        x == ShiftLeft(a.m, a.e - e)
        y == ShiftLeft(b.m, b.e - e)
    IN  [w |-> IF Less(x, y) THEN SubLimbs(y, x) ELSE SubLimbs(x, y), e |-> e]

\* p < q for two distances
Nearer(p, q) ==
    LET e == IF p.e < q.e THEN p.e ELSE q.e
    IN  Less(ShiftLeft(p.w, p.e - e), ShiftLeft(q.w, q.e - e))

\* C1: once the effect cleanup has run, no frame callback is left scheduled,
\* no updatePitch runs and no history entry is appended, whatever the order of
\* the cleanup, the getUserMedia continuation and the frame callbacks.
C1_LoopCeasesAfterTeardown ==
    [][/\ teardowns' > 0 => scheduled' = {}
       /\ teardowns > 0 => (ticksRun' = ticksRun /\ chartDataRef' = chartDataRef)]_vars

\* C2: every call of updatePitch, also one in which the estimator throws,
\* appends a history entry and leaves the next frame callback scheduled.
C2_ThrowingTickReschedules ==
    [][IsTick => /\ Len(chartDataRef') = Len(chartDataRef) + 1
                 /\ animationFrameRef' # animationFrameRef
                 /\ animationFrameRef' \in scheduled']_vars

\* C3: at no time are two tones allocated and sounding: at most one context
\* of playFrequency is running with its oscillator started.
C3_SingleFlight ==
    Cardinality({k \in 1..Len(tones) :
                    tones[k].ctx = "running" /\ tones[k].osc = "started"}) <= 1

\* C4: a run of the cleanup after the first one raises nothing and makes no
\* release call on an object that was released before.
C4_TeardownIdempotent ==
    [][(IsCleanup /\ teardowns >= 1)
           => (redundantReleases' = redundantReleases /\ faults' = faults)]_vars

\* C5: in every run of the cleanup, also one in which a release call throws,
\* each other step is still carried out: the frame callback in
\* animationFrameRef is cancelled and the context in playContextRef is closed.
C5_ReleaseStepsIndependent ==
    [][IsCleanup =>
          /\ (animationFrameRef # 0 /\ cleanupFailedAt' # 4)
                 => animationFrameRef \notin scheduled'
          /\ (playContextRef # 0 /\ cleanupFailedAt' # 5)
                 => tones'[playContextRef].ctx = "closed"]_vars

\* C6: after the cleanup has run, the stream obtained from getUserMedia is
\* not live.
C6_StreamReleasedAfterTeardown == teardowns > 0 => ~streamLive

\* C7: after N completed ticks the history and the snapshot handed to the
\* chart hold exactly N entries, with timestamps in non-decreasing order.
C7_HistoryCountsTicks ==
    /\ Len(chartDataRef) = ticksCompleted
    /\ frequencyData = chartDataRef
    /\ \A i \in 1..Len(chartDataRef), j \in 1..Len(chartDataRef) :
           i <= j => chartDataRef[i].time <= chartDataRef[j].time

C7_Witness ==
    /\ ticksCompleted = 2
    /\ Len(chartDataRef) = 2
    /\ chartDataRef[1].frequency = Zero
    /\ LessDouble(Zero, chartDataRef[2].frequency)
    /\ chartDataRef[1].time < chartDataRef[2].time

Idle ==
    /\ ticksRun = 0
    /\ chartDataRef = <<>>
    /\ frequencyData = <<>>
    /\ scheduled = {}
    /\ animationFrameRef = 0
    /\ audioContextRef = "null"
    /\ audioSourceRef = "null"
    /\ analyserRef = "null"
    /\ pitchFinderRef = "null"
    /\ ~streamLive

\* C8: until getUserMedia resolves no tick has run, no history entry exists
\* and no audio graph is built; when it rejects this stays so, and the
\* status text is the error text carrying the message of the rejection.
C8_ActiveOnlyAfterAcquisition ==
    /\ micPromise.state = "pending" => Idle
    /\ micPromise.state = "rejected"
           => /\ Idle
              /\ micPromise.message \in ErrorMessages
              /\ status = <<"Error accessing microphone: ", micPromise.message>>

C8_Witness ==
    /\ micPromise.state = "rejected"
    /\ micPromise.message = "Permission denied"
    /\ status = <<"Error accessing microphone: ", "Permission denied">>
    /\ teardowns > 0

\* C9: a tick in which the estimator returns null appends exactly one entry
\* with frequency 0 and note "--", displays note "--" and cents 0, and leaves
\* the next frame callback scheduled.
C9_SilentTickRecorded ==
    [][(IsTick /\ lastEstimate'.kind = "null")
           => /\ chartDataRef' = Append(chartDataRef, SilentPoint(clock'))
              /\ frequencyData' = chartDataRef'
              /\ note' = "--"
              /\ cents' = 0
              /\ animationFrameRef' # animationFrameRef
              /\ animationFrameRef' \in scheduled']_vars

C9_Witness ==
    /\ lastEstimate.kind = "null"
    /\ ticksCompleted = 2
    /\ chartDataRef[1].frequency = Dec(1000000)
    /\ chartDataRef[1].note = "A2"
    /\ chartDataRef[2] = SilentPoint(clock)
    /\ note = "--"
    /\ animationFrameRef \in scheduled

\* C10: a tick whose raw estimate is 0 or negative leaves the same display,
\* the same history entry and the same smoothing state as a tick whose
\* estimate is null, for any previous smoothing state.
C10_NonPositiveIsSilence ==
    [][(IsTick /\ lastEstimate'.kind = "value" /\ lastEstimate'.f <= 0)
           => /\ chartDataRef' = Append(chartDataRef, SilentPoint(clock'))
              /\ note' = "--"
              /\ cents' = 0
              /\ previousPitch' = Zero]_vars

(* ---------------------------------------------------------------------- *)
(* Properties of the classifier                                            *)
(* ---------------------------------------------------------------------- *)
\* the six references as the specification lists them
ClaimedReferences ==
    <<[note |-> "E2", hertz |-> 824100], [note |-> "A2", hertz |-> 1100000],
      [note |-> "D3", hertz |-> 1468300], [note |-> "G3", hertz |-> 1960000],
      [note |-> "B3", hertz |-> 2469400], [note |-> "E4", hertz |-> 3296300]>>

\* the first tick classified the raw estimate f itself
ClassifiedRaw(f) == ticksCompleted = 1 /\ lastEstimate = Detected(f)

\* i is the first index whose reference is nearest to f in hertz, by the
\* exact distances of the doubles
FirstNearest(f, i) ==
    \A j \in 1..Len(ClaimedReferences) :
        LET di == Distance(Dec(f), Dec(ClaimedReferences[i].hertz))
            dj == Distance(Dec(f), Dec(ClaimedReferences[j].hertz))
        IN  ~Nearer(dj, di) /\ (~Nearer(di, dj) => i <= j)

\* C11: for every f > 0 the note of getNoteAndCents(f) is the reference that
\* minimises |f - reference| in hertz, the first in enumeration order on a
\* tie, with no octave folding: 220 gives G3 and 1000 gives E4.
C11_NearestReferenceInHertz ==
    \A f \in ProbeFrequencies :
        (f > 0 /\ ClassifiedRaw(f))
            => /\ \E i \in 1..Len(ClaimedReferences) :
                      FirstNearest(f, i) /\ note = ClaimedReferences[i].note
               /\ f = 2200000 => note = "G3"
               /\ f = 10000000 => note = "E4"

C11_Witness == ClassifiedRaw(962050) /\ note = "E2" /\ chartDataRef[1].note = "E2"

\* C12: for every f <= 0 getNoteAndCents(f) is the placeholder "--" with
\* cents 0, and for f equal to a reference it is that note with cents 0.
C12_SentinelAndExactMatch ==
    \A f \in ProbeFrequencies :
        ClassifiedRaw(f)
            => /\ f <= 0 => (note = "--" /\ cents = 0)
               /\ \A i \in 1..Len(ClaimedReferences) :
                      f = ClaimedReferences[i].hertz
                          => (note = ClaimedReferences[i].note /\ cents = 0)

C12_Witness == ClassifiedRaw(-50000) /\ note = "--" /\ cents = 0

(* ---------------------------------------------------------------------- *)
(* Properties of the smoothing filter                                      *)
(* ---------------------------------------------------------------------- *)
NewestPoint == chartDataRef[Len(chartDataRef)]

\* the frequencies of the history to four decimals, in ten-thousandths
Frequencies == [i \in 1..Len(chartDataRef) |-> Units(chartDataRef[i].frequency)]

Notes == [i \in 1..Len(chartDataRef) |-> chartDataRef[i].note]

\* C13: on a tick with a detected raw estimate f the smoothed value is f when
\* the previous smoothed value is 0 and otherwise 0.7 * previous + 0.3 * f, to
\* less than a ten-thousandth of a hertz (previous 100 and f 200 give the
\* double 130), and it becomes the smoothing state.
C13_ExponentialSmoothing ==
    [][(IsTick /\ lastEstimate'.kind = "value")
           => LET f == lastEstimate'.f
                  smoothed == NewestPoint'.frequency
                  off == 10 * Units(smoothed) - (7 * Units(previousPitch) + 3 * f)
              IN  /\ previousPitch = Zero => smoothed = Dec(f)
                  /\ previousPitch # Zero => (-9 < off /\ off < 9)
                  /\ (previousPitch = Dec(1000000) /\ f = 2000000)
                         => smoothed = Dec(1300000)
                  /\ previousPitch' = smoothed]_vars

C13_Witness ==
    /\ ticksCompleted = 2
    /\ chartDataRef[1].frequency = Dec(1000000)
    /\ lastEstimate = Detected(2000000)
    /\ chartDataRef[2].frequency = Dec(1300000)
    /\ previousPitch = Dec(1300000)

\* C14: the estimates none, 82.41, 82.0, 82.41 of a fresh session leave the
\* history frequencies 0, 82.41, 82.287, 82.3671 (to four decimals) and the
\* notes --, E2, E2, E2.
C14_ScenarioAsClaimed ==
    ticksCompleted = 4
        => /\ Frequencies = <<0, 824100, 822870, 823671>>
           /\ Notes = <<"--", "E2", "E2", "E2">>

\* C14, amended: the estimates none, 82.41, 82.0, 82.41 of a fresh session
\* leave the history frequencies 0, 82.41, 82.287, 82.3239 (to four decimals)
\* and the notes --, E2, E2, E2.
C14_ScenarioAmended ==
    ticksCompleted = 4
        => /\ Frequencies = <<0, 824100, 822870, 823239>>
           /\ Notes = <<"--", "E2", "E2", "E2">>

C14_Witness ==
    /\ ticksCompleted = 4
    /\ lastEstimate = Detected(824100)
    /\ Units(NewestPoint.frequency) = 823239
    /\ Units(chartDataRef[3].frequency) = 822870
    /\ chartDataRef[3].frequency # Dec(822870)
    /\ note = "E2"
    /\ cents = -2

\* C16: a tick with no detection sets the smoothing state to 0, and the
\* first detected tick of the session or after a tick with no detection
\* records its raw estimate unsmoothed, whatever was estimated before.
C16_NoSmoothingAcrossSilence ==
    [][IsTick
           => /\ lastEstimate'.kind = "null" => previousPitch' = Zero
              /\ (lastEstimate'.kind = "value" /\ lastEstimate.kind \in {"init", "null"})
                     => /\ NewestPoint'.frequency = Dec(lastEstimate'.f)
                        /\ previousPitch' = Dec(lastEstimate'.f)]_vars

C16_Witness ==
    /\ ticksCompleted = 3
    /\ chartDataRef[1].frequency = Dec(1000000)
    /\ chartDataRef[2].frequency = Zero
    /\ lastEstimate = Detected(2000000)
    /\ chartDataRef[3].frequency = Dec(2000000)
    /\ previousPitch = Dec(2000000)

(* ---------------------------------------------------------------------- *)
(* Properties of the tone player, the scheduling and the history           *)
(* ---------------------------------------------------------------------- *)
AllTimersRan ==
    /\ tones # <<>>
    /\ \A k \in 1..Len(tones) : tones[k].timer \in {"done", "failed"}

\* C15: once the timers of every tone have run, each context that
\* playFrequency allocated is closed and no timer callback has failed, also
\* after a cleanup during the tone and after calls in quick succession.
C15_ToneContextsReleased ==
    AllTimersRan
        => \A k \in 1..Len(tones) : tones[k].ctx = "closed" /\ tones[k].timer = "done"

\* C17: at most one frame callback is pending at any time, a tick leaves at
\* most one new callback pending, and the smoothing state and the history
\* change only in a tick.
C17_OneTickAtATime ==
    [][/\ Cardinality(scheduled') <= 1
       /\ IsTick => Cardinality(scheduled' \ scheduled) <= 1
       /\ ~IsTick => /\ scheduled' \subseteq scheduled
                     /\ previousPitch' = previousPitch
                     /\ chartDataRef' = chartDataRef]_vars

C17_Witness ==
    /\ ticksCompleted = 2
    /\ animationFrameRef = 2
    /\ scheduled = {2}
    /\ Len(tones) = 1
    /\ teardowns = 0

IsPrefix(old, new) ==
    /\ Len(old) <= Len(new)
    /\ \A i \in 1..Len(old) : new[i] = old[i]

\* C18: a tick leaves every entry appended before unchanged, the array handed
\* to the chart before is a prefix of the one handed to it now, and the array
\* of the chart is always the whole history of the latest completed tick.
C18_AppendOnlyHistory ==
    [][/\ IsPrefix(chartDataRef, chartDataRef')
       /\ IsPrefix(frequencyData, frequencyData')
       /\ Len(chartDataRef') <= Len(chartDataRef) + 1
       /\ frequencyData' = chartDataRef']_vars

C18_Witness ==
    /\ ticksCompleted = 2
    /\ Len(frequencyData) = 2
    /\ frequencyData[1].frequency = Dec(1000000)
    /\ frequencyData[2].frequency = Zero
    /\ frequencyData = chartDataRef

\* C19: after every completed tick the note of the newest history entry and
\* the displayed note and cents are those getNoteAndCents gives for the
\* frequency of that entry.
C19_DisplayMatchesHistory ==
    ticksCompleted > 0
        => LET r == getNoteAndCents(NewestPoint.frequency)
           IN  /\ NewestPoint.note = r.note
               /\ note = r.note
               /\ cents = r.cents

C19_Witness ==
    /\ ticksCompleted = 2
    /\ lastEstimate = Detected(2000000)
    /\ NewestPoint = [time |-> 0, frequency |-> Dec(1300000), note |-> "D3"]
    /\ note = "D3"
    /\ cents = -211

\* some timer callback of playFrequency ran in this step
TimerRan ==
    /\ Len(tones') = Len(tones)
    /\ \E k \in 1..Len(tones) : tones'[k].timer # tones[k].timer

\* C20: whenever a timer callback of playFrequency runs, playContextRef is
\* not null, and the callback that ends a tone leaves playing false.
C20_TimersSeeContext ==
    [][TimerRan
           => /\ playContextRef # 0
              /\ \A k \in 1..Len(tones) :
                     (tones'[k].timer = "done" /\ tones[k].timer # "done")
                         => playing' = FALSE]_vars

====
